---- MODULE Spec2Model ----
(***************************************************************************)
(* A model of credit-card-tracker's sync path: SyncEngine::sync and        *)
(* SyncEngine::sync_card (src/src/sync/engine.rs), the destination store   *)
(* calls of SheetsClient (src/src/sheets/client.rs) and the tabular codec  *)
(* of Transaction (src/src/models/transaction.rs).                         *)
(*                                                                         *)
(* Timestamps and decimal amounts are integers; their serialized form is   *)
(* the decimal numeral of the integer.  Option<String> is <<>> (None) or   *)
(* <<s>> (Some(s)); a serde_json::Value cell is <<"null">> or <<"str", s>>.*)
(***************************************************************************)
EXTENDS Integers, Sequences, FiniteSets, TLC

(***************************************************************************)
(* Bounds of the model.                                                    *)
(***************************************************************************)
\* The last instant the wall clock reaches, in ticks since the epoch.
Horizon == 5
\* Longest list reconcile_transactions is called with.
MaxTx == 4
\* Longest batch the data source returns for one card.
MaxBatch == 2
\* The operator stops duplicating rows once a sheet holds this many data rows.
MaxRows == 2
\* The data rows of an input of from_sheet_rows called on its own.
MaxDecode == 2
\* The last column index index_to_column_letter is called with.
MaxColumn == 702
\* The conditional format rules a sheet holds at most before a sync, and the
\* syncs in a row that are followed.
MaxRules == 3
MaxSyncs == 2

(***************************************************************************)
(* Values                                                                  *)
(***************************************************************************)
None == <<>>
Some(s) == <<s>>

Null == <<"null">>
Str(s) == <<"str", s>>

Range(s) == {s[i] : i \in DOMAIN s}

\* AppError::<kind>(msg): the message is a sequence of its parts.
AppError(kind, msg) == [kind |-> kind, msg |-> msg]
NoError == AppError("", <<>>)

\* TrueLayerTransaction { normalised_provider_transaction_id, timestamp,
\*                        description, transaction_type, amount, currency }
TlTx(id, ts, desc) ==
    [id |-> id, timestamp |-> ts, description |-> desc, type_ |-> "Debit",
     amount |-> -10, currency |-> "GBP"]

\* impl From<TrueLayerTransaction> for Transaction: the data source never
\* supplies matched_id or comments.
FromTrueLayer(tl) ==
    [timestamp |-> tl.timestamp, description |-> tl.description,
     amount |-> tl.amount, currency |-> tl.currency, type_ |-> tl.type_,
     id |-> tl.id, matched_id |-> None, comments |-> None]

(***************************************************************************)
(* Tabular codec (models/transaction.rs)                                   *)
(***************************************************************************)
\* Transaction::get_field_names: the serde names of the fields, in order.
FieldNames ==
    <<"Timestamp", "Description", "Amount", "Currency", "Type", "ID",
      "Matched ID", "Comments">>

\* Instants and amounts that have a serialized form in the model.
TimestampDomain == 0..3
AmountDomain == -20..20

\* Serialize for DateTime<Utc> / Decimal: a string.
TimestampToString(t) == ToString(t)
DecimalToString(d) == ToString(d)

OptionToValue(o) == IF o = None THEN Null ELSE Str(o[1])

\* serde_json::to_value(t): the object keyed by the serde field names.
ToValue(t) ==
    [h \in Range(FieldNames) |->
        CASE h = "Timestamp" -> Str(TimestampToString(t.timestamp))
          [] h = "Description" -> Str(t.description)
          [] h = "Amount" -> Str(DecimalToString(t.amount))
          [] h = "Currency" -> Str(t.currency)
          [] h = "Type" -> Str(t.type_)
          [] h = "ID" -> Str(t.id)
          [] h = "Matched ID" -> OptionToValue(t.matched_id)
          [] OTHER -> OptionToValue(t.comments)]

\* Mutant of to_sheet_rows: the data rows only, without the header row.
RowsWithoutHeader(list) ==
    [k \in DOMAIN list |->
        [i \in DOMAIN FieldNames |->
            IF FieldNames[i] \in DOMAIN ToValue(list[k])
            THEN ToValue(list[k])[FieldNames[i]] ELSE Null]]

\* impl ToSheetRows for [Transaction]: the header row, then one row per
\* transaction holding obj.get(header) or Null for each header.
to_sheet_rows(list) ==
    LET headers == FieldNames
        header_row == [i \in DOMAIN headers |-> Str(headers[i])]
        data_row(t) ==
            LET obj == ToValue(t)
            IN  [i \in DOMAIN headers |->
                    IF headers[i] \in DOMAIN obj THEN obj[headers[i]] ELSE Null]
    IN  <<header_row>> \o [k \in DOMAIN list |-> data_row(list[k])]

\* Transaction::get_column_index: the 0-based position of a field name.
get_column_index(field_name) ==
    IF \E i \in DOMAIN FieldNames : FieldNames[i] = field_name
    THEN Some((CHOOSE i \in DOMAIN FieldNames :
                  /\ FieldNames[i] = field_name
                  /\ \A j \in 1..(i - 1) : FieldNames[j] # field_name) - 1)
    ELSE None

\* The characters b'A' + 0 .. b'A' + 25; a String is the sequence of its
\* characters.
Alphabet ==
    <<"A", "B", "C", "D", "E", "F", "G", "H", "I", "J", "K", "L", "M", "N",
      "O", "P", "Q", "R", "S", "T", "U", "V", "W", "X", "Y", "Z">>

\* Mutant of index_to_column_letter: the parent is col_idx / 26.
RECURSIVE PlainBase26(_)
PlainBase26(col_idx) ==
    LET remainder == col_idx % 26
        char == Alphabet[remainder + 1]
    IN  IF col_idx < 26 THEN <<char>>
        ELSE Append(PlainBase26(col_idx \div 26), char)

\* Transaction::index_to_column_letter
RECURSIVE index_to_column_letter(_)
index_to_column_letter(col_idx) ==
    LET remainder == col_idx % 26
        char == Alphabet[remainder + 1]
    IN  IF col_idx < 26 THEN <<char>>
        ELSE LET parent == (col_idx \div 26) - 1
             IN  Append(index_to_column_letter(parent), char)

\* Transaction::get_column_letter
get_column_letter(field_name) ==
    IF get_column_index(field_name) = None THEN None
    ELSE Some(index_to_column_letter(get_column_index(field_name)[1]))

\* Transaction::value_to_string
value_to_string(v) == IF v[1] = "str" THEN v[2] ELSE "null"

\* Transaction::normalize_sheet_value: an empty string becomes Null, for
\* every column.
normalize_sheet_value(v) == IF v = Str("") THEN Null ELSE v

\* headers.iter().zip(row.iter()).collect::<Map>(): a later cell under the
\* same header replaces an earlier one; cells beyond the shorter of the two
\* are dropped.
RECURSIVE ZipMap(_, _, _)
ZipMap(headers, row, n) ==
    IF n = 0 THEN [h \in {} |-> Null]
    ELSE LET m == ZipMap(headers, row, n - 1)
             k == headers[n]
         IN  [h \in DOMAIN m \cup {k} |->
                 IF h = k THEN normalize_sheet_value(row[n]) ELSE m[h]]

Min(a, b) == IF a < b THEN a ELSE b

\* Mutant of RowMap: the cells are taken by position, in the order of the
\* fields, whatever the header row says.
PositionalMap(headers, row) ==
    ZipMap(FieldNames, row, Min(Len(FieldNames), Len(row)))

RowMap(headers, row) == ZipMap(headers, row, Min(Len(headers), Len(row)))

IsStr(map, h) == h \in DOMAIN map /\ map[h][1] = "str"

\* Deserialize for DateTime<Utc> / Decimal from a string cell.
ParsesTimestamp(s) == \E t \in TimestampDomain : TimestampToString(t) = s
ParseTimestamp(s) == CHOOSE t \in TimestampDomain : TimestampToString(t) = s
ParsesDecimal(s) == \E d \in AmountDomain : DecimalToString(d) = s
ParseDecimal(s) == CHOOSE d \in AmountDomain : DecimalToString(d) = s

\* Mutant of Deserializes: any type tag is accepted.
AnyTypeTag(map) ==
    /\ IsStr(map, "Timestamp") /\ ParsesTimestamp(map["Timestamp"][2])
    /\ IsStr(map, "Description")
    /\ IsStr(map, "Amount") /\ ParsesDecimal(map["Amount"][2])
    /\ IsStr(map, "Currency")
    /\ IsStr(map, "Type")
    /\ IsStr(map, "ID")

\* Whether serde_json::from_value::<Transaction>(map) succeeds: the six
\* required fields are present, not null and convert.
Deserializes(map) ==
    /\ IsStr(map, "Timestamp") /\ ParsesTimestamp(map["Timestamp"][2])
    /\ IsStr(map, "Description")
    /\ IsStr(map, "Amount") /\ ParsesDecimal(map["Amount"][2])
    /\ IsStr(map, "Currency")
    /\ IsStr(map, "Type") /\ map["Type"][2] \in {"Debit", "Credit"}
    /\ IsStr(map, "ID")

\* An Option<String> field with #[serde(default)]: absent or null is None.
OptionField(map, h) == IF IsStr(map, h) THEN Some(map[h][2]) ELSE None

Deserialize(map) ==
    [timestamp |-> ParseTimestamp(map["Timestamp"][2]),
     description |-> map["Description"][2],
     amount |-> ParseDecimal(map["Amount"][2]),
     currency |-> map["Currency"][2],
     type_ |-> map["Type"][2],
     id |-> map["ID"][2],
     matched_id |-> OptionField(map, "Matched ID"),
     comments |-> OptionField(map, "Comments")]

\* impl FromSheetRows for Transaction.  [ok |-> TRUE, val |-> list], or
\* [ok |-> FALSE, row |-> n] for "Failed to parse row n" (n = idx + 1 of the
\* first row that fails).
from_sheet_rows(rows) ==
    IF rows = <<>> THEN [ok |-> TRUE, val |-> <<>>]
    ELSE LET headers == [i \in DOMAIN rows[1] |-> value_to_string(rows[1][i])]
             bad == {p \in 2..Len(rows) : ~Deserializes(RowMap(headers, rows[p]))}
         IN  IF bad = {}
             THEN [ok |-> TRUE,
                   val |-> [k \in 1..(Len(rows) - 1) |->
                               Deserialize(RowMap(headers, rows[k + 1]))]]
             ELSE [ok |-> FALSE, row |-> CHOOSE p \in bad : \A q \in bad : p <= q]

(***************************************************************************)
(* Merge (sync/engine.rs, sync_card lines 85-97)                           *)
(***************************************************************************)
EmptyMap == <<>>

\* HashMap::insert
Insert(m, k, v) == [x \in DOMAIN m \cup {k} |-> IF x = k THEN v ELSE m[x]]

\* Inserting list[1..n] in order, each under its id.
RECURSIVE InsertAll(_, _, _)
InsertAll(m, list, n) ==
    IF n = 0 THEN m
    ELSE Insert(InsertAll(m, list, n - 1), list[n].id, list[n])

\* Mutant of CollectById: the map is not seeded with the sheet's rows.
CollectNothing(existing) == EmptyMap

\* existing_transactions.into_iter().map(|t| (t.id.clone(), t)).collect()
CollectById(existing) == InsertAll(EmptyMap, existing, Len(existing))

\* Inserting list[1..n] in order, an id already in the map keeping its value
\* (entry(id).or_insert(t)).
RECURSIVE InsertAbsent(_, _, _)
InsertAbsent(m, list, n) ==
    IF n = 0 THEN m
    ELSE LET r == InsertAbsent(m, list, n - 1)
         IN  IF list[n].id \in DOMAIN r THEN r ELSE Insert(r, list[n].id, list[n])

\* Mutant of Upsert: the stored record wins.
UpsertKeepsOld(m, incoming) == InsertAbsent(m, incoming, Len(incoming))

\* for t in transactions { transaction_map.insert(t.id.clone(), t); }
Upsert(m, incoming) == InsertAll(m, incoming, Len(incoming))

\* transaction_map.into_values().collect(): the values in the hash map's
\* iteration order, which is any order of its keys.
IntoValues(m) ==
    LET n == Cardinality(DOMAIN m)
    IN  {[i \in 1..n |-> m[p[i]]] :
            p \in {q \in [1..n -> DOMAIN m] : \A i, j \in 1..n : q[i] = q[j] => i = j}}

\* Insert t after the last element whose key is <= t's key.
RECURSIVE InsertSorted(_, _)
InsertSorted(s, t) ==
    IF s = <<>> THEN <<t>>
    ELSE IF s[Len(s)].timestamp <= t.timestamp THEN Append(s, t)
    ELSE Append(InsertSorted(SubSeq(s, 1, Len(s) - 1), t), s[Len(s)])

\* Mutant of SortByTimestamp: the sort is left out.
NotSorted(s) == s

\* all_transactions.sort_by_key(|t| t.timestamp): a stable sort.
RECURSIVE SortByTimestamp(_)
SortByTimestamp(s) ==
    IF s = <<>> THEN <<>>
    ELSE InsertSorted(SortByTimestamp(SubSeq(s, 1, Len(s) - 1)), s[Len(s)])

\* Mutant of Merged: the fetched batch is appended to the sheet's rows.
Appended(existing, incoming) == {SortByTimestamp(existing \o incoming)}

\* The sequences sync_card may pass to write_sheet for these inputs.
Merged(existing, incoming) ==
    {SortByTimestamp(v) : v \in IntoValues(Upsert(CollectById(existing), incoming))}

(***************************************************************************)
(* Reconciliation (sync/reconcile.rs)                                      *)
(***************************************************************************)
\* Time is counted in ticks since the epoch, DayLen ticks to the UTC day
\* (Duration::days(1)).
DayLen == 2

Abs(n) == IF n < 0 THEN -n ELSE n

\* TimeDelta::num_days: the whole days of a duration, truncated toward zero.
num_days(diff) == IF diff >= 0 THEN diff \div DayLen ELSE -((-diff) \div DayLen)

\* Mutant of Candidates: every transaction is a candidate.
EveryPosition(transactions) == [i \in DOMAIN transactions |-> i]

\* candidates: the transactions without matched_id, as references (positions
\* in the input), in input order.
Candidates(transactions) ==
    SelectSeq([i \in DOMAIN transactions |-> i],
              LAMBDA i : transactions[i].matched_id = None)

\* The keys of by_amount.
Keys(transactions) ==
    {Abs(transactions[Candidates(transactions)[k]].amount) :
        k \in DOMAIN Candidates(transactions)}

\* by_amount[key]: the candidates of that absolute amount, in push order.
Bucket(transactions, key) ==
    SelectSeq(Candidates(transactions), LAMBDA i : Abs(transactions[i].amount) = key)

\* Mutant of Sorted: the group is left in push order.
PushOrder(transactions, group) ==
    [k \in DOMAIN group |-> [at |-> group[k], timestamp |-> transactions[group[k]].timestamp]]

\* group.sort_by_key(|t| t.timestamp): the references with their keys, in
\* stable timestamp order.
Sorted(transactions, group) ==
    SortByTimestamp([k \in DOMAIN group |->
                        [at |-> group[k], timestamp |-> transactions[group[k]].timestamp]])

\* Mutant of AmountsCancel: the amounts are not compared.
AnyAmounts(tx_a, tx_b) == TRUE

\* tx_a.amount + tx_b.amount != Decimal::ZERO => continue
AmountsCancel(tx_a, tx_b) == tx_a.amount + tx_b.amount = 0

\* Mutant of WithinWindow: the Credit must not precede the Debit.
ForwardWindow(tx_a, tx_b, days) ==
    /\ tx_b.timestamp >= tx_a.timestamp
    /\ num_days(tx_b.timestamp - tx_a.timestamp) <= days

\* Mutant of WithinWindow: a distance of exactly `days` is outside.
WithinShorterWindow(tx_a, tx_b, days) ==
    Abs(num_days(tx_b.timestamp - tx_a.timestamp)) < days

\* diff.num_days().abs() <= days as i64
WithinWindow(tx_a, tx_b, days) ==
    Abs(num_days(tx_b.timestamp - tx_a.timestamp)) <= days

\* Mutant of Consume: every index up to the later of the two is marked.
ConsumeThrough(matched_indexes, i, j) ==
    matched_indexes \cup (1..(IF i < j THEN j ELSE i))

\* Mutant of Consume: matched_indexes is not written.
ConsumeNothing(matched_indexes, i, j) == matched_indexes

\* matched_indexes[i] = true; matched_indexes[j] = true
Consume(matched_indexes, i, j) == matched_indexes \cup {i, j}

\* The loop `for i in i0..group.len()` over a sorted group, matched_indexes
\* being the set of indexes marked true: the pairs pushed, as references.
RECURSIVE MatchFrom(_, _, _, _, _)
MatchFrom(transactions, group, days, i0, matched_indexes) ==
    IF i0 > Len(group) THEN <<>>
    ELSE LET tx_a == transactions[group[i0].at]
             \* the j of the inner loop that reach the date check and pass it
             hits == {j \in DOMAIN group :
                        LET tx_b == transactions[group[j].at]
                        IN  /\ i0 # j /\ j \notin matched_indexes
                            /\ tx_b.type_ = "Credit"
                            /\ AmountsCancel(tx_a, tx_b)
                            /\ tx_a.id # tx_b.id
                            /\ WithinWindow(tx_a, tx_b, days)}
         IN  IF i0 \in matched_indexes \/ tx_a.type_ # "Debit" \/ hits = {}
             THEN MatchFrom(transactions, group, days, i0 + 1, matched_indexes)
             ELSE LET j == CHOOSE h \in hits : \A g \in hits : h <= g
                  IN  <<[debit |-> group[i0].at, credit |-> group[j].at]>>
                      \o MatchFrom(transactions, group, days, i0 + 1,
                                   Consume(matched_indexes, i0, j))

\* The body of `for (_, mut group) in by_amount` for one key.
MatchGroup(transactions, days, key) ==
    MatchFrom(transactions, Sorted(transactions, Bucket(transactions, key)), days, 1, {})

\* The orders in which a HashMap may yield these keys.
KeyOrders(keys) ==
    {o \in [1..Cardinality(keys) -> keys] : \A i, j \in DOMAIN o : o[i] = o[j] => i = j}

\* Mutant of MatchAll: only the group visited first is matched.
FirstGroupOnly(transactions, days, order, n) ==
    IF n = 0 THEN <<>> ELSE MatchGroup(transactions, days, order[1])

\* matches after the groups were visited in this order.
RECURSIVE MatchAll(_, _, _, _)
MatchAll(transactions, days, order, n) ==
    IF n = 0 THEN <<>>
    ELSE MatchAll(transactions, days, order, n - 1)
         \o MatchGroup(transactions, days, order[n])

\* What reconcile_transactions may push for this input, as references.
MatchedRefs(transactions, days) ==
    {MatchAll(transactions, days, o, Len(o)) : o \in KeyOrders(Keys(transactions))}

\* MatchedPair { debit_id: tx_a.id.clone(), credit_id: tx_b.id.clone() }
MatchedPair(transactions, ref) ==
    [debit_id |-> transactions[ref.debit].id, credit_id |-> transactions[ref.credit].id]

\* matches for a sequence of pushed references.
Matches(transactions, refs) ==
    [k \in DOMAIN refs |-> MatchedPair(transactions, refs[k])]

\* The Vecs reconcile_transactions(transactions, days) may return.
reconcile_transactions(transactions, days) ==
    {Matches(transactions, refs) : refs \in MatchedRefs(transactions, days)}

\* Transaction { .. } as the matcher reads it.
Tx(id, type_, amount, timestamp, matched_id) ==
    [timestamp |-> timestamp, description |-> "x", amount |-> amount,
     currency |-> "GBP", type_ |-> type_, id |-> id, matched_id |-> matched_id,
     comments |-> None]

\* The transactions the matcher's inputs are made of.  With days = 1 the
\* first credit is a day before the first debit and a day and a half before
\* the second; the second credit is a day after the first debit and half a
\* day after the second; the third is two days after the first debit.
Pool ==
    {Tx("d1", "Debit", -10, 2, None),
     Tx("d2", "Debit", -10, 3, None),
     Tx("c1", "Credit", 10, 0, None),
     Tx("c2", "Credit", 10, 4, None),
     Tx("c3", "Credit", 10, 6, None),
     Tx("c4", "Credit", 10, 2, Some("d9")),  \* reconciled before
     Tx("c5", "Credit", 11, 2, None),        \* another amount
     Tx("d4", "Debit", -11, 2, None),        \* its debit
     Tx("c6", "Credit", -10, 2, None),       \* a credit of negative amount
     Tx("d3", "Debit", 10, 2, None),         \* a debit of positive amount
     Tx("d1", "Credit", 10, 2, None)}        \* the id of the first debit

\* The lists and windows reconcile_transactions is called with.
Inputs == UNION {[1..n -> Pool] : n \in 0..MaxTx}
Windows == {0, 1}

(***************************************************************************)
(* The environment: the data source's cards and the transactions it holds  *)
(* for each, and the spreadsheet.                                          *)
(***************************************************************************)
\* Card { id, name, .. }: name is the display name the data source gives
\* the card, and names its sheet.  Twin is a second card displayed as Amex.
CardMain == [id |-> "acc_main", name |-> "Main"]
CardAmex == [id |-> "acc_amex", name |-> "Amex"]
CardVisa == [id |-> "acc_visa", name |-> "Visa"]
CardTwin == [id |-> "acc_twin", name |-> "Amex"]

\* What get_cards may return: no card, one card, two cards with a name
\* each, two cards with one name.
CardLists == {<<>>, <<CardMain>>, <<CardAmex, CardVisa>>, <<CardAmex, CardTwin>>}

SheetNames == {CardMain.name, CardAmex.name, CardVisa.name}

\* The transaction versions the data source may hold for a card.  Main has
\* two ids with equal timestamps, and a later version of one with another
\* timestamp and an empty description; Amex has one transaction, Visa and
\* Twin none.
Ledger(card_id) ==
    CASE card_id = "acc_main" ->
            {TlTx("a", 1, "x"), TlTx("a", 2, ""), TlTx("b", 1, "y")}
      [] card_id = "acc_amex" -> {TlTx("a", 1, "x")}
      [] OTHER -> {}

\* The batches get_card_transactions may return for a card.
Batches(card_id) == UNION {[1..n -> Ledger(card_id)] : n \in 0..MaxBatch}

NoSheet == [exists |-> FALSE, values |-> <<>>, rules |-> 0]

\* Mutant of StartOfDay: the instant is not normalized.
SameInstant(t) == t

\* .date_naive().and_hms_opt(0, 0, 0) .. .and_utc(): 00:00:00 UTC of the
\* day of t.  and_hms_opt(0, 0, 0) is Some for every date, so the
\* ok_or_else(Config) of sync() never yields an error.
StartOfDay(t) == (t \div DayLen) * DayLen

VARIABLES
    cards,                  \* the cards of the data source account
    source,                 \* source[i]: what the data source holds for cards[i]
    sheets,                 \* sheets[name]: the sheet of that name, if any
    pc,                     \* where sync() stands
    err,                    \* the error sync() returned, NoError for none
    idx,                    \* the card the loop of sync() is at
    transactions,           \* sync_card: the fetched batch
    sheet,                  \* sync_card: the Sheet ensure_sheet returned
    existing_transactions,  \* sync_card: what read_sheet returned
    all_transactions,       \* sync_card: what is passed to write_sheet
    at_start,               \* history: sheets when this run started
    touched,                \* history: cards sync_card was called for in this run
    persisted,              \* history: the rows written for each card in this run
    stable,                 \* history: stable[i] iff the sheet of cards[i] holds the
                            \* rows of its last write and source[i] is as it was then
    failed_at,              \* history: the card whose sync_card failed, 0 for none
    at_call,                \* history: sheets when sync_card was called for the
                            \* current card
    now,                    \* the wall clock, what Utc::now() returns
    fetch_days,             \* self.config.fetch_days, a count of days
    to_date,                \* sync: to_date
    from_date,              \* sync: from_date
    calls,                  \* history: the collaborator calls sync_card made in
                            \* this run, each with the card it was made for
    windows,                \* history: the (from, to) pairs passed to
                            \* get_card_transactions in this run
    rc_pc,                  \* where a call of reconcile_transactions stands
    rc_transactions,        \* reconcile_transactions: transactions
    rc_days,                \* reconcile_transactions: days
    matches,                \* reconcile_transactions: matches
    refs,                   \* history: the references behind matches
    cd_pc,                  \* where a call of from_sheet_rows on its own stands
    cd_rows,                \* from_sheet_rows: rows
    cd_result,              \* from_sheet_rows: what it returned
    cl_pc,                  \* where a call of a column letter function stands
    cl_call,                \* the function called and its argument
    cl_result,              \* what it returned
    fm_pc,                  \* where apply_formatting stands
    fm_rules,               \* the conditional format rules of the sheet
    fm_sheet,               \* apply_formatting: sheet, as ensure_sheet returned it
    fm_requests,            \* the requests of the batch update not yet applied
    fm_syncs,               \* history: the syncs that formatted the sheet
    au_pc,                  \* where get_valid_tokens stands
    au_now,                 \* chrono::Utc::now().timestamp(), in seconds
    au_file,                \* the token cache file
    au_tokens,              \* get_valid_tokens: tokens, what load_tokens returned
    au_response,            \* the token response being parsed, with its fallback
    au_log,                 \* history: what get_valid_tokens has done so far
    au_result               \* what get_valid_tokens returned

vars ==
    <<cards, source, sheets, pc, err, idx, transactions, sheet,
      existing_transactions, all_transactions, at_start, touched, persisted,
      stable, failed_at, at_call, now, fetch_days, to_date, from_date, windows,
      calls,
      rc_pc, rc_transactions, rc_days, matches, refs,
      cd_pc, cd_rows, cd_result, cl_pc, cl_call, cl_result,
      fm_pc, fm_rules, fm_sheet, fm_requests, fm_syncs,
      au_pc, au_now, au_file, au_tokens, au_response, au_log, au_result>>

env == <<cards, source>>
locals == <<transactions, sheet, existing_transactions, all_transactions>>
history == <<at_start, touched, persisted, stable, failed_at, at_call, windows, calls>>
window == <<now, fetch_days, to_date, from_date>>
matcher == <<rc_pc, rc_transactions, rc_days, matches, refs>>
codec == <<cd_pc, cd_rows, cd_result>>
\* What the sync path does not touch.
columns == <<cl_pc, cl_call, cl_result>>
formatting == <<fm_pc, fm_rules, fm_sheet, fm_requests, fm_syncs>>
auth == <<au_pc, au_now, au_file, au_tokens, au_response, au_log, au_result>>
aside == <<codec, columns, formatting, auth>>
\* What only the sync path touches.
syncing == <<env, window, sheets, pc, err, idx, locals, history>>

Name == cards[idx].name

\* The state before the first run, at instant t0 with fetch_days among days.
InitAt(t0, days) ==
    /\ now = t0
    /\ fetch_days \in days
    /\ cards \in CardLists
    /\ source \in {s \in [DOMAIN cards -> UNION {Batches(c.id) : c \in Range(cards)}] :
                      \A i \in DOMAIN cards : s[i] \in Batches(cards[i].id)}
    /\ sheets = [n \in SheetNames |-> NoSheet]
    /\ pc = "idle"
    /\ err = NoError
    /\ idx = 0
    /\ transactions = <<>>
    /\ sheet = NoSheet
    /\ existing_transactions = <<>>
    /\ all_transactions = <<>>
    /\ at_start = sheets
    /\ touched = {}
    /\ persisted = <<>>
    /\ stable = [i \in DOMAIN cards |-> FALSE]
    /\ failed_at = 0
    /\ at_call = sheets
    /\ to_date = 0
    /\ from_date = 0
    /\ windows = {}
    /\ calls = <<>>

\* reconcile_transactions is not called.
MatcherOff ==
    /\ rc_pc = "off"
    /\ rc_transactions = <<>>
    /\ rc_days = 0
    /\ matches = <<>>
    /\ refs = <<>>

\* from_sheet_rows is not called on its own.
CodecOff ==
    /\ cd_pc = "off"
    /\ cd_rows = <<>>
    /\ cd_result = <<>>

\* No column letter function is called on its own.
ColumnsOff ==
    /\ cl_pc = "off"
    /\ cl_call = <<>>
    /\ cl_result = <<>>

\* apply_formatting is not followed on its own.
FormattingOff ==
    /\ fm_pc = "off"
    /\ fm_rules = <<>>
    /\ fm_sheet = <<>>
    /\ fm_requests = <<>>
    /\ fm_syncs = 0

\* get_valid_tokens is not followed on its own.
AuthOff ==
    /\ au_pc = "off"
    /\ au_now = 0
    /\ au_file = <<>>
    /\ au_tokens = <<>>
    /\ au_response = <<>>
    /\ au_log = <<>>
    /\ au_result = <<>>

AsideOff == CodecOff /\ ColumnsOff /\ FormattingOff /\ AuthOff

\* Runs at one instant, with fetch_days = 1.
Init == InitAt(Horizon, {1}) /\ MatcherOff /\ AsideOff

\* Runs at a noon, the midnight after it and the noon after that, with
\* fetch_days 0 or 1.
InitWindow == InitAt(Horizon - DayLen, {0, 1}) /\ MatcherOff /\ AsideOff

\* A call of reconcile_transactions, the sync path idle.
InitReconcile ==
    /\ InitAt(Horizon, {1})
    /\ cards = <<>>
    /\ rc_pc = "called"
    /\ rc_transactions \in Inputs
    /\ rc_days \in Windows
    /\ matches = <<>>
    /\ refs = <<>>
    /\ AsideOff

\* stable after a change of the sheet called n.
Unsettled(n) == [i \in DOMAIN stable |-> stable[i] /\ cards[i].name # n]

(***************************************************************************)
(* sync() and sync_card()                                                  *)
(***************************************************************************)
\* Mutant of OnError: the error is dropped and sync_card goes on with
\* ensure_sheet.
GoOn(k, n) == [pc |-> "ensure", idx |-> k]

\* `?` on the result of sync_card in the loop of sync(), and `?` inside
\* sync_card: an error of card k ends the run.
OnError(k, n) == [pc |-> "failed", idx |-> k]

\* sync_card returns: its locals are dropped.
DropLocals ==
    /\ transactions' = <<>>
    /\ sheet' = NoSheet
    /\ existing_transactions' = <<>>
    /\ all_transactions' = <<>>

\* A call of sync_card for the current card returns Err(kind(msg)).
CardFailsWith(kind, msg) ==
    /\ pc' = OnError(idx, Len(cards)).pc
    /\ idx' = OnError(idx, Len(cards)).idx
    /\ err' = AppError(kind, msg)
    /\ failed_at' = idx
    /\ DropLocals

\* The same for an error of a request, whose message is the transport's.
CardFails(kind) == CardFailsWith(kind, <<>>)

\* cli::sync::execute calls engine.sync().
StartSync ==
    /\ pc = "idle"
    /\ pc' = "get_cards"
    /\ at_start' = sheets
    /\ at_call' = sheets
    /\ \E t \in now..Horizon :
          /\ now' = t
          /\ to_date' = t
          /\ from_date' = StartOfDay(t - fetch_days * DayLen)
    /\ UNCHANGED fetch_days
    /\ UNCHANGED <<calls, env, matcher, aside, sheets, err, idx, locals, touched, windows, persisted, stable, failed_at>>

\* self.truelayer_client.get_cards().await? and the empty check.
GetCards ==
    /\ pc = "get_cards"
    /\ \/ /\ pc' = "failed"
          /\ err' \in {AppError("Http", <<>>),
                       AppError("TrueLayer", <<"Failed to list cards">>)}
          /\ UNCHANGED idx
       \/ /\ cards = <<>>
          /\ pc' = "failed"
          /\ err' = AppError("TrueLayer", <<"No cards found">>)
          /\ UNCHANGED idx
       \/ /\ cards # <<>>
          /\ pc' = "fetch"
          /\ idx' = 1
          /\ UNCHANGED err
    /\ UNCHANGED <<env, matcher, aside, window, sheets, locals, history>>

\* sync_card: self.truelayer_client.get_card_transactions(..).await?
GetCardTransactions ==
    /\ pc = "fetch"
    /\ calls' = Append(calls, <<idx, "get_card_transactions">>)
    /\ touched' = touched \cup {idx}
    /\ windows' = windows \cup {<<from_date, to_date>>}
    /\ \/ CardFails("TrueLayer")
       \/ /\ transactions' = [i \in DOMAIN source[idx] |-> FromTrueLayer(source[idx][i])]
          /\ pc' = "ensure"
          /\ UNCHANGED <<err, idx, failed_at, sheet, existing_transactions,
                         all_transactions>>
    /\ UNCHANGED <<env, matcher, aside, window, sheets, at_start, persisted, stable, at_call>>

\* sync_card: self.sheets_client.ensure_sheet(sheet_name).await?
\* get_sheet, then create_sheet when there is none.
EnsureSheet ==
    /\ pc = "ensure"
    /\ calls' = Append(calls, <<idx, "ensure_sheet">>)
    /\ \/ /\ CardFails("Sheets")
          /\ UNCHANGED sheets
       \/ /\ sheets[Name].exists
          /\ sheet' = sheets[Name]
          /\ pc' = "read"
          /\ UNCHANGED <<sheets, err, idx, failed_at, transactions,
                         existing_transactions, all_transactions>>
       \/ /\ ~sheets[Name].exists
          /\ sheets' = [sheets EXCEPT ![Name] = [exists |-> TRUE, values |-> <<>>, rules |-> 0]]
          /\ sheet' = [exists |-> TRUE, values |-> <<>>, rules |-> 0]
          /\ pc' = "read"
          /\ UNCHANGED <<err, idx, failed_at, transactions, existing_transactions,
                         all_transactions>>
    /\ UNCHANGED <<env, matcher, aside, window, at_start, touched, windows, persisted, stable, at_call>>

\* sync_card: self.sheets_client.read_sheet(sheet_name).await?
\* values_get, then Transaction::from_sheet_rows.
ReadSheet ==
    /\ pc = "read"
    /\ calls' = Append(calls, <<idx, "read_sheet">>)
    /\ LET decoded == from_sheet_rows(sheets[Name].values)
       IN  \/ CardFails("Sheets")
           \/ /\ ~decoded.ok
              /\ CardFailsWith("Sheets", <<"Failed to parse row", decoded.row>>)
           \/ /\ decoded.ok
              /\ existing_transactions' = decoded.val
              /\ pc' = "merge"
              /\ UNCHANGED <<err, idx, failed_at, transactions, sheet, all_transactions>>
    /\ UNCHANGED <<env, matcher, aside, window, sheets, at_start, touched, windows, persisted, stable, at_call>>

\* sync_card lines 85-97: the upsert by id and the sort.
Merge ==
    /\ pc = "merge"
    /\ all_transactions' \in Merged(existing_transactions, transactions)
    /\ pc' = "clear"
    /\ UNCHANGED <<env, matcher, aside, window, sheets, err, idx, transactions, sheet, existing_transactions,
                   history>>

\* write_sheet: values_clear of the sheet's range.
ClearValues ==
    /\ pc = "clear"
    /\ calls' = Append(calls, <<idx, "write_sheet">>)
    /\ \/ /\ CardFails("Sheets")
          /\ UNCHANGED <<sheets, stable>>
       \/ /\ sheets' = [sheets EXCEPT ![Name].values = <<>>]
          /\ stable' = Unsettled(Name)
          /\ pc' = "update"
          /\ UNCHANGED <<err, idx, failed_at, locals>>
    /\ UNCHANGED <<env, matcher, aside, window, at_start, touched, windows, persisted, at_call>>

\* write_sheet: to_sheet_rows and values_update at A1.
UpdateValues ==
    /\ pc = "update"
    /\ \/ /\ CardFails("Sheets")
          /\ UNCHANGED <<sheets, stable, persisted>>
       \/ /\ sheets' = [sheets EXCEPT ![Name].values = to_sheet_rows(all_transactions)]
          /\ stable' = [Unsettled(Name) EXCEPT ![idx] = TRUE]
          /\ persisted' = Append(persisted, to_sheet_rows(all_transactions))
          /\ pc' = "format"
          /\ UNCHANGED <<err, idx, failed_at, locals>>
    /\ UNCHANGED <<calls, env, matcher, aside, window, at_start, touched, windows, at_call>>

\* write_sheet: apply_formatting(sheet): one batch update that deletes the
\* conditional format rules the Sheet of ensure_sheet lists and adds one;
\* then sync_card returns Ok and the loop of sync() goes on.
ApplyFormatting ==
    /\ pc = "format"
    /\ \/ /\ CardFails("Sheets")
          /\ UNCHANGED <<sheets, at_call>>
       \/ /\ sheets' = [sheets EXCEPT ![Name].rules = (@ - sheet.rules) + 1]
          /\ at_call' = sheets'
          /\ IF idx < Len(cards)
             THEN pc' = "fetch" /\ idx' = idx + 1
             ELSE pc' = "done" /\ idx' = idx
          /\ DropLocals
          /\ UNCHANGED <<err, failed_at>>
    /\ UNCHANGED <<calls, env, matcher, aside, window, at_start, touched, windows, persisted, stable>>

\* sync() has returned and the process exits.
Return ==
    /\ pc \in {"done", "failed"}
    /\ calls' = <<>>
    /\ pc' = "idle"
    /\ err' = NoError
    /\ idx' = 0
    /\ at_start' = sheets
    /\ touched' = {}
    /\ windows' = {}
    /\ UNCHANGED <<now, fetch_days>>
    /\ to_date' = 0
    /\ from_date' = 0
    /\ persisted' = <<>>
    /\ failed_at' = 0
    /\ at_call' = sheets
    /\ UNCHANGED <<env, matcher, aside, sheets, stable, locals>>

(***************************************************************************)
(* Between runs: the data source changes, the operator edits a sheet.      *)
(***************************************************************************)
ProviderUpdate ==
    /\ pc = "idle"
    /\ \E i \in DOMAIN cards : \E b \in Batches(cards[i].id) :
          /\ b # source[i]
          /\ source' = [source EXCEPT ![i] = b]
          /\ stable' = [stable EXCEPT ![i] = FALSE]
    /\ UNCHANGED <<calls, cards, matcher, aside, window, sheets, pc, err, idx, locals, at_start, touched, windows, persisted,
                   failed_at, at_call>>

ColumnOf(header_row, name) == CHOOSE i \in DOMAIN header_row : header_row[i] = Str(name)

\* The operator fills the Matched ID or the Comments cell of a data row, or
\* pastes a copy of a data row below the last row.
OperatorEdit ==
    /\ pc = "idle"
    /\ \E i \in DOMAIN cards :
          LET n == cards[i].name
              v == sheets[n].values
          IN  /\ \E p \in 2..Len(v) :
                    \/ \E f \in {"Matched ID", "Comments"} :
                          /\ v[p][ColumnOf(v[1], f)] = Null
                          /\ sheets' = [sheets EXCEPT
                                ![n].values[p][ColumnOf(v[1], f)] = Str("note")]
                    \/ /\ Len(v) - 1 < MaxRows
                       /\ sheets' = [sheets EXCEPT ![n].values = Append(v, v[p])]
              /\ stable' = Unsettled(n)
              /\ at_start' = sheets'
              /\ at_call' = sheets'
    /\ UNCHANGED <<calls, env, matcher, aside, window, pc, err, idx, locals, touched, windows, persisted, failed_at>>

Next ==
    \/ StartSync
    \/ GetCards
    \/ GetCardTransactions
    \/ EnsureSheet
    \/ ReadSheet
    \/ Merge
    \/ ClearValues
    \/ UpdateValues
    \/ ApplyFormatting
    \/ Return
    \/ ProviderUpdate
    \/ OperatorEdit

Spec == Init /\ [][Next]_vars

\* reconcile_transactions runs and returns matches.
Reconcile ==
    /\ rc_pc = "called"
    /\ rc_pc' = "returned"
    /\ refs' \in MatchedRefs(rc_transactions, rc_days)
    /\ matches' = Matches(rc_transactions, refs')
    /\ UNCHANGED <<rc_transactions, rc_days, syncing, aside>>

NextReconcile == Reconcile

SpecReconcile == InitReconcile /\ [][NextReconcile]_vars

\* The same program over a stretch of time.
SpecWindow == InitWindow /\ [][Next]_vars

(***************************************************************************)
(* from_sheet_rows on rows the program did not write: the operator may     *)
(* move, drop and edit columns and cells of a sheet.                       *)
(***************************************************************************)
\* The cells of a data row, in the order of the fields.
Cells(timestamp, description, amount, type_, id, matched_id, comments) ==
    <<Str(timestamp), Str(description), Str(amount), Str("GBP"), Str(type_),
      id, matched_id, comments>>

\* Data rows that convert.
GoodRows ==
    {Cells("1", "x", "-10", "Debit", Str("a"), Null, Null),
     Cells("2", "y", "10", "Credit", Str("b"), Str("a"), Str("note"))}

\* Data rows with a value that does not convert (a decimal, a timestamp, a
\* type tag) or without a required field.
BadRows ==
    {Cells("1", "x", "ten", "Debit", Str("a"), Null, Null),
     Cells("soon", "x", "-10", "Debit", Str("a"), Null, Null),
     Cells("1", "x", "-10", "Refund", Str("a"), Null, Null),
     Cells("1", "x", "-10", "Debit", Null, Null, Null)}

\* The data row sync_card writes for a transaction with an empty description.
BlankRows == {Cells("1", "", "-10", "Debit", Str("c"), Null, Null)}

RowPool == GoodRows \cup BadRows \cup BlankRows

\* The columns of a sheet, as positions in the order of the fields: as
\* written, reversed, without the optional columns, without Amount.
Layouts ==
    {<<1, 2, 3, 4, 5, 6, 7, 8>>, <<8, 7, 6, 5, 4, 3, 2, 1>>,
     <<1, 2, 3, 4, 5, 6>>, <<1, 2, 4, 5, 6, 7, 8>>}

\* A row with its columns arranged by layout.
Arrange(row, layout) == [i \in DOMAIN layout |-> row[layout[i]]]

HeaderRow == [i \in DOMAIN FieldNames |-> Str(FieldNames[i])]

\* The rows from_sheet_rows may be called with.
DecodeInputs ==
    {<<Arrange(HeaderRow, layout)>> \o [k \in DOMAIN data |-> Arrange(data[k], layout)] :
        layout \in Layouts,
        data \in UNION {[1..n -> RowPool] : n \in 0..MaxDecode}}

\* A call of from_sheet_rows, the sync path idle.
InitCodec ==
    /\ InitAt(Horizon, {1})
    /\ cards = <<>>
    /\ MatcherOff
    /\ cd_pc = "called"
    /\ cd_rows \in DecodeInputs
    /\ cd_result = <<>>
    /\ ColumnsOff
    /\ FormattingOff
    /\ AuthOff

\* from_sheet_rows runs and returns.
Decode ==
    /\ cd_pc = "called"
    /\ cd_pc' = "returned"
    /\ cd_result' = from_sheet_rows(cd_rows)
    /\ UNCHANGED <<cd_rows, syncing, matcher, columns, formatting, auth>>

NextCodec == Decode

SpecCodec == InitCodec /\ [][NextCodec]_vars

(***************************************************************************)
(* The column letter functions of Transaction, called on their own.        *)
(***************************************************************************)
\* The names get_column_letter is called with: the fields and others.
Names == Range(FieldNames) \cup {"Unknown", "timestamp", "Id", ""}

IndexCall(col_idx) == [fn |-> "index_to_column_letter", col_idx |-> col_idx, field_name |-> ""]
NameCall(field_name) == [fn |-> "get_column_letter", col_idx |-> 0, field_name |-> field_name]

InitColumns ==
    /\ InitAt(Horizon, {1})
    /\ cards = <<>>
    /\ MatcherOff
    /\ CodecOff
    /\ cl_pc = "called"
    /\ cl_call \in {IndexCall(i) : i \in 0..MaxColumn} \cup {NameCall(n) : n \in Names}
    /\ cl_result = <<>>
    /\ FormattingOff
    /\ AuthOff

IndexToColumnLetter ==
    /\ cl_pc = "called"
    /\ cl_call.fn = "index_to_column_letter"
    /\ cl_pc' = "returned"
    /\ cl_result' = index_to_column_letter(cl_call.col_idx)
    /\ UNCHANGED <<cl_call, syncing, matcher, codec, formatting, auth>>

GetColumnLetter ==
    /\ cl_pc = "called"
    /\ cl_call.fn = "get_column_letter"
    /\ cl_pc' = "returned"
    /\ cl_result' = get_column_letter(cl_call.field_name)
    /\ UNCHANGED <<cl_call, syncing, matcher, codec, formatting, auth>>

NextColumns == IndexToColumnLetter \/ GetColumnLetter

SpecColumns == InitColumns /\ [][NextColumns]_vars

(***************************************************************************)
(* Conditional formatting (sheets/client.rs, sheets/formatting.rs).  A     *)
(* rule is "highlight" (the rule the program adds) or "other"; the sheet's *)
(* rules are a sequence, index 0 first.                                    *)
(***************************************************************************)
\* Request { delete_conditional_format_rule: Some({ index, sheet_id }) }
DeleteRule(sheet_id, index) ==
    [kind |-> "delete_conditional_format_rule", sheet_id |-> sheet_id, index |-> index]

\* Request { add_conditional_format_rule: Some({ index, rule }) }, the rule
\* naming the columns of ID and Matched ID.
AddRule(sheet_id, index, id_column, matched_id_column) ==
    [kind |-> "add_conditional_format_rule", sheet_id |-> sheet_id, index |-> index,
     rule |-> [id_column |-> id_column, matched_id_column |-> matched_id_column]]

\* Mutant of highlight_rules: no rule is deleted.
AddRuleOnly(sheet_id, sheet_arg) ==
    <<AddRule(sheet_id, 0, get_column_letter("ID")[1], get_column_letter("Matched ID")[1])>>

\* highlight_rules / SheetsClient::build_highlight_rules: one delete at
\* index 0 for each rule sheet.conditional_formats lists, then one add.
highlight_rules(sheet_id, sheet_arg) ==
    LET conditional_format_rules ==
            IF sheet_arg.conditional_formats = None THEN <<>>
            ELSE sheet_arg.conditional_formats[1]
    IN  [k \in DOMAIN conditional_format_rules |-> DeleteRule(sheet_id, 0)]
        \o <<AddRule(sheet_id, 0, get_column_letter("ID")[1],
                     get_column_letter("Matched ID")[1])>>

\* The sheet's rules after the spreadsheet service applied one request.
ApplyRequest(rules, request) ==
    IF request.kind = "delete_conditional_format_rule"
    THEN [k \in 1..(Len(rules) - 1) |-> rules[k + (IF k > request.index THEN 1 ELSE 0)]]
    ELSE SubSeq(rules, 1, request.index) \o <<"highlight">>
         \o SubSeq(rules, request.index + 1, Len(rules))

\* The id of the one sheet that is followed.
SheetId == 123

\* The rule lists a sheet may hold before the first sync.
RuleLists == UNION {[1..n -> {"highlight", "other"}] : n \in 0..MaxRules}

InitFormatting ==
    /\ InitAt(Horizon, {1})
    /\ cards = <<>>
    /\ MatcherOff
    /\ CodecOff
    /\ ColumnsOff
    /\ fm_pc = "idle"
    /\ fm_rules \in RuleLists
    /\ fm_sheet = <<>>
    /\ fm_requests = <<>>
    /\ fm_syncs = 0
    /\ AuthOff

\* ensure_sheet: get_sheet returns the Sheet with the rules it has now.
FormatEnsureSheet ==
    /\ fm_pc = "idle"
    /\ fm_syncs < MaxSyncs
    /\ fm_sheet' = [sheet_id |-> SheetId,
                    conditional_formats |->
                        IF fm_rules = <<>> THEN None ELSE Some(fm_rules)]
    /\ fm_pc' = "apply_formatting"
    /\ UNCHANGED <<fm_rules, fm_requests, fm_syncs, syncing, matcher, codec, columns, auth>>

\* apply_formatting: the requests of the batch update are built and sent.
BuildHighlightRules ==
    /\ fm_pc = "apply_formatting"
    /\ fm_requests' = highlight_rules(fm_sheet.sheet_id, fm_sheet)
    /\ fm_pc' = "batch_update"
    /\ UNCHANGED <<fm_rules, fm_sheet, fm_syncs, syncing, matcher, codec, columns, auth>>

\* The spreadsheet service applies the next request of the batch; after
\* the last one apply_formatting returns.
BatchUpdateStep ==
    /\ fm_pc = "batch_update"
    /\ fm_requests # <<>>
    /\ fm_rules' = ApplyRequest(fm_rules, Head(fm_requests))
    /\ fm_requests' = Tail(fm_requests)
    /\ IF Len(fm_requests) = 1
       THEN fm_pc' = "idle" /\ fm_syncs' = fm_syncs + 1
       ELSE fm_pc' = fm_pc /\ fm_syncs' = fm_syncs
    /\ UNCHANGED <<fm_sheet, syncing, matcher, codec, columns, auth>>

\* Between syncs the operator adds a rule of their own.
OperatorAddsRule ==
    /\ fm_pc = "idle"
    /\ Len(fm_rules) < MaxRules
    /\ fm_rules' = Append(fm_rules, "other")
    /\ UNCHANGED <<fm_pc, fm_sheet, fm_requests, fm_syncs, syncing, matcher, codec, columns, auth>>

NextFormatting ==
    \/ FormatEnsureSheet
    \/ BuildHighlightRules
    \/ BatchUpdateStep
    \/ OperatorAddsRule

SpecFormatting == InitFormatting /\ [][NextFormatting]_vars

(***************************************************************************)
(* Tokens of the data source (truelayer/auth.rs)                            *)
(***************************************************************************)
\* TrueLayerTokens { access_token, refresh_token, expires_at }
TrueLayerTokens(access_token, refresh_token, expires_at) ==
    [access_token |-> access_token, refresh_token |-> refresh_token,
     expires_at |-> expires_at]

\* Mutant of is_expired: without the buffer of five minutes.
NoBuffer(tokens, now_) == tokens.expires_at < now_

\* TrueLayerTokens::is_expired, now being chrono::Utc::now().timestamp().
is_expired(tokens, now_) == tokens.expires_at < (now_ + 300)

\* BasicTokenResponse: access_token(), refresh_token(), expires_in().
TokenResponse(access_token, refresh_token, expires_in) ==
    [access_token |-> access_token, refresh_token |-> refresh_token,
     expires_in |-> expires_in]

\* Result<TrueLayerTokens>
Ok(tokens) == [ok |-> TRUE, tokens |-> tokens]
Err(e) == [ok |-> FALSE, err |-> e]

\* parse_and_save_tokens up to save_tokens: the tokens of a response.
ParseTokens(token_result, fallback_refresh_token, now_) ==
    LET expires_in == IF token_result.expires_in = None THEN 3600
                      ELSE token_result.expires_in[1]
    IN  IF token_result.refresh_token # None
        THEN Ok(TrueLayerTokens(token_result.access_token,
                                token_result.refresh_token[1], now_ + expires_in))
        ELSE IF fallback_refresh_token # None
        THEN Ok(TrueLayerTokens(token_result.access_token,
                                fallback_refresh_token[1], now_ + expires_in))
        ELSE Err(AppError("Auth", <<"No refresh token received">>))

\* The token cache file: missing, unreadable, or holding tokens.
Missing == [state |-> "missing"]
Unreadable == [state |-> "unreadable"]
Cached(tokens) == [state |-> "cached", tokens |-> tokens]

\* Seconds from now to the expiry of the cached access token.
Offsets == {-3600, -1, 0, 299, 300, 301, 3600}

\* What the token endpoint may answer to a refresh or a code exchange.
Responses(access_token, refresh_token) ==
    {TokenResponse(access_token, r, e) :
        r \in {None, Some(refresh_token)}, e \in {None, Some(600)}}

InitAuth ==
    /\ InitAt(Horizon, {1})
    /\ cards = <<>>
    /\ MatcherOff
    /\ CodecOff
    /\ ColumnsOff
    /\ FormattingOff
    /\ au_pc = "called"
    /\ au_now = 1000
    /\ au_file \in {Missing, Unreadable}
                    \cup {Cached(TrueLayerTokens("a0", "r0", au_now + d)) : d \in Offsets}
    /\ au_tokens = None
    /\ au_response = <<>>
    /\ au_log = <<>>
    /\ au_result = <<>>

\* get_valid_tokens returns result.
AuthReturns(result) ==
    /\ au_pc' = "returned"
    /\ au_result' = result

\* let Some(tokens) = Self::load_tokens()? else { authenticate }
LoadTokens ==
    /\ au_pc = "called"
    /\ \/ /\ au_file.state = "unreadable"
          /\ AuthReturns(Err(AppError("Auth", <<"Failed to parse tokens">>)))
          /\ UNCHANGED au_tokens
       \/ /\ au_file.state = "missing"
          /\ au_pc' = "authenticate"
          /\ UNCHANGED <<au_tokens, au_result>>
       \/ /\ au_file.state = "cached"
          /\ au_tokens' = Some(au_file.tokens)
          /\ au_pc' = "is_expired"
          /\ UNCHANGED au_result
    /\ au_log' = Append(au_log, "load_tokens")
    /\ UNCHANGED <<au_now, au_file, au_response, syncing, matcher, codec, columns, formatting>>

\* if !tokens.is_expired() { return Ok(tokens) }
CheckExpired ==
    /\ au_pc = "is_expired"
    /\ IF ~is_expired(au_tokens[1], au_now)
       THEN AuthReturns(Ok(au_tokens[1]))
       ELSE au_pc' = "refresh" /\ UNCHANGED au_result
    /\ UNCHANGED <<au_now, au_file, au_tokens, au_response, au_log, syncing, matcher,
                   codec, columns, formatting>>

\* refresh_access_token(&tokens.refresh_token): the request to the token
\* endpoint; an error goes to the Err arm of the match.
RefreshAccessToken ==
    /\ au_pc = "refresh"
    /\ \/ /\ au_pc' = "authenticate"
          /\ au_log' = au_log \o <<"refresh_access_token", "refresh failed">>
          /\ UNCHANGED au_response
       \/ /\ au_response' \in
                {[token_result |-> r, fallback_refresh_token |-> Some(au_tokens[1].refresh_token),
                  caller |-> "refresh_access_token"] : r \in Responses("a1", "r1")}
          /\ au_pc' = "parse_and_save_tokens"
          /\ au_log' = Append(au_log, "refresh_access_token")
    /\ UNCHANGED <<au_now, au_file, au_tokens, au_result, syncing, matcher, codec,
                   columns, formatting>>

\* authenticate(): the interactive flow and the code exchange.
Authenticate ==
    /\ au_pc = "authenticate"
    /\ au_log' = Append(au_log, "authenticate")
    /\ \/ /\ AuthReturns(Err(AppError("Auth", <<"Failed to exchange code">>)))
          /\ UNCHANGED au_response
       \/ /\ au_response' \in
                {[token_result |-> r, fallback_refresh_token |-> None,
                  caller |-> "authenticate"] : r \in Responses("a2", "r2")}
          /\ au_pc' = "parse_and_save_tokens"
          /\ UNCHANGED au_result
    /\ UNCHANGED <<au_now, au_file, au_tokens, syncing, matcher, codec, columns, formatting>>

\* What get_valid_tokens does with an error of parse_and_save_tokens: after
\* a refresh it authenticates, after authenticate it returns the error.
ParseFails(e) ==
    IF au_response.caller = "refresh_access_token"
    THEN /\ au_pc' = "authenticate"
         /\ au_log' = Append(au_log, "refresh failed")
         /\ UNCHANGED au_result
    ELSE /\ AuthReturns(Err(e))
         /\ UNCHANGED au_log

\* parse_and_save_tokens(token_result, fallback_refresh_token)
ParseAndSaveTokens ==
    /\ au_pc = "parse_and_save_tokens"
    /\ LET parsed == ParseTokens(au_response.token_result,
                                 au_response.fallback_refresh_token, au_now)
       IN  \/ /\ ~parsed.ok
              /\ ParseFails(parsed.err)
              /\ UNCHANGED au_file
           \/ /\ parsed.ok
              /\ ParseFails(AppError("Auth", <<"Failed to write tokens file">>))
              /\ UNCHANGED au_file
           \/ /\ parsed.ok
              /\ au_file' = Cached(parsed.tokens)
              /\ AuthReturns(Ok(parsed.tokens))
              /\ au_log' = Append(au_log, "save_tokens")
    /\ UNCHANGED <<au_now, au_tokens, au_response, syncing, matcher, codec, columns,
                   formatting>>

NextAuth ==
    \/ LoadTokens
    \/ CheckExpired
    \/ RefreshAccessToken
    \/ Authenticate
    \/ ParseAndSaveTokens

SpecAuth == InitAuth /\ [][NextAuth]_vars

(***************************************************************************)
(* Properties                                                              *)
(***************************************************************************)
\* write_sheet has been called with all_transactions and has not returned.
WriteCalled == pc \in {"clear", "update", "format"}

Ids(list) == {list[i].id : i \in DOMAIN list}

\* The last record of list with this id.
LastWithId(list, id) ==
    list[CHOOSE i \in DOMAIN list :
            /\ list[i].id = id
            /\ \A j \in DOMAIN list : list[j].id = id => j <= i]

\* The fields the data source provides.
SourceFields(t) == <<t.timestamp, t.description, t.amount, t.currency, t.type_>>

\* The ids in the ID column of a sheet's data rows.
IdsInSheet(sh) ==
    IF Len(sh.values) < 2 THEN {}
    ELSE {sh.values[p][ColumnOf(sh.values[1], "ID")] : p \in 2..Len(sh.values)}

\* C1 as stated: every transaction read from the sheet whose id is not in the
\* fetched batch is in the written sequence with every field unchanged.
C1_EveryRowKept ==
    WriteCalled =>
        \A i \in DOMAIN existing_transactions :
            existing_transactions[i].id \notin Ids(transactions)
                => existing_transactions[i] \in Range(all_transactions)

\* C1 amended: every transaction read from the sheet whose id is not in the
\* fetched batch, and which is the last row of the sheet with its id, is in
\* the written sequence with every field unchanged.
C1_HistoryPreserved ==
    WriteCalled =>
        \A i \in DOMAIN existing_transactions :
            (/\ existing_transactions[i].id \notin Ids(transactions)
             /\ \A j \in DOMAIN existing_transactions :
                   existing_transactions[j].id = existing_transactions[i].id => j <= i)
                => existing_transactions[i] \in Range(all_transactions)

\* A merge of a non-empty batch into a sheet holding an annotated row whose
\* id the batch lacks.
C1_Witness ==
    /\ WriteCalled
    /\ transactions # <<>>
    /\ \E i \in DOMAIN existing_transactions :
          /\ existing_transactions[i].id \notin Ids(transactions)
          /\ existing_transactions[i].comments # None

\* C2: when an id is in the sheet and in the fetched batch, and the sheet's
\* record has matched_id or comments set while the fetched one has neither,
\* the written record carries the sheet's matched_id and comments.
C2_AnnotationsKept ==
    WriteCalled =>
        \A i \in DOMAIN existing_transactions, n \in Range(transactions) :
            LET e == existing_transactions[i]
            IN  (/\ e.id = n.id
                 /\ \A j \in DOMAIN existing_transactions :
                       existing_transactions[j].id = e.id => j = i
                 /\ e.matched_id # None \/ e.comments # None
                 /\ n.matched_id = None /\ n.comments = None)
                    => \E o \in Range(all_transactions) :
                          /\ o.id = e.id
                          /\ o.matched_id = e.matched_id
                          /\ o.comments = e.comments

\* C3: for every id in the sheet and in the fetched batch the written
\* sequence holds exactly one record with that id, and its timestamp,
\* description, amount, currency and type are those of the fetched record
\* (the last one with that id, when the batch repeats the id).
C3_UpsertFreshness ==
    WriteCalled =>
        \A id \in Ids(existing_transactions) \cap Ids(transactions) :
            /\ Cardinality({k \in DOMAIN all_transactions : all_transactions[k].id = id}) = 1
            /\ \A k \in DOMAIN all_transactions :
                  all_transactions[k].id = id
                      => SourceFields(all_transactions[k])
                            = SourceFields(LastWithId(transactions, id))

\* A merge in which the fetched record differs from the sheet's record of
\* the same id in a field the data source provides.
C3_Witness ==
    /\ WriteCalled
    /\ \E e \in Range(existing_transactions), n \in Range(transactions) :
          e.id = n.id /\ SourceFields(e) # SourceFields(n)

\* C4: an id present in a sheet when a run starts is present in that sheet
\* when the run has ended, with Ok or with an error.
C4_NoIdDeleted ==
    pc \in {"done", "failed"} =>
        \A n \in SheetNames : IdsInSheet(at_start[n]) \subseteq IdsInSheet(sheets[n])

\* C5: the sequence passed to write_sheet holds no id twice.
C5_UniqueIds ==
    WriteCalled =>
        \A i, j \in DOMAIN all_transactions :
            all_transactions[i].id = all_transactions[j].id => i = j

\* A merge of a batch that repeats an id into a sheet that holds an id twice.
C5_Witness ==
    /\ WriteCalled
    /\ \E i, j \in DOMAIN existing_transactions :
          i # j /\ existing_transactions[i].id = existing_transactions[j].id
    /\ \E i, j \in DOMAIN transactions :
          i # j /\ transactions[i].id = transactions[j].id

\* C6: the sequence passed to write_sheet is in non-decreasing timestamp
\* order.
C6_Sorted ==
    WriteCalled =>
        \A i, j \in DOMAIN all_transactions :
            i < j => all_transactions[i].timestamp <= all_transactions[j].timestamp

\* A merge whose batch arrives latest first and whose output holds two
\* timestamps.
C6_Witness ==
    /\ WriteCalled
    /\ Len(transactions) = 2
    /\ transactions[1].timestamp > transactions[2].timestamp
    /\ \E i, j \in DOMAIN all_transactions :
          all_transactions[i].timestamp # all_transactions[j].timestamp

\* The ids of list in the order of their first occurrence.
RECURSIVE FirstOccurrences(_)
FirstOccurrences(list) ==
    IF list = <<>> THEN <<>>
    ELSE LET front == FirstOccurrences(SubSeq(list, 1, Len(list) - 1))
             id == list[Len(list)].id
         IN  IF id \in Range(front) THEN front ELSE Append(front, id)

\* The merged records in insertion order: the sheet's rows in sheet order,
\* then the newly inserted fetched rows in fetch order.
InInsertionOrder(existing, incoming) ==
    LET m == Upsert(CollectById(existing), incoming)
        order == FirstOccurrences(existing \o incoming)
    IN  [i \in DOMAIN order |-> m[order[i]]]

\* C7: records with equal timestamps are written in insertion order, so the
\* written sequence is a function of the sheet's rows and the fetched batch.
C7_StableTieBreak ==
    WriteCalled =>
        all_transactions
            = SortByTimestamp(InInsertionOrder(existing_transactions, transactions))

\* C8: a merge of the batch of the last write into the sheet content that
\* write produced passes the same rows to write_sheet.
C8_Idempotent ==
    (pc = "clear" /\ stable[idx]) =>
        to_sheet_rows(all_transactions) = sheets[Name].values

\* C9: when sync_card has returned an error, the existence and the contents
\* of the card's sheet are as they were before the call.
C9_FailureLeavesSheetUntouched ==
    (pc = "failed" /\ failed_at >= 1) =>
        LET n == cards[failed_at].name
        IN  /\ sheets[n].exists = at_call[n].exists
            /\ sheets[n].values = at_call[n].values

\* The data rows of a sheet's values or of the rows of a write.
DataRows(rows) == {rows[p] : p \in 2..Len(rows)}

\* C10: once sync_card has failed for card k, sync() has returned that
\* error; sync_card was called for cards 1..k only; and the sheet of each
\* card before k holds the data rows written for that card in this run.
C10_AbortOnFirstError ==
    failed_at >= 1 =>
        /\ pc = "failed"
        /\ err # NoError
        /\ idx = failed_at
        /\ touched = 1..failed_at
        /\ \A j \in 1..(failed_at - 1) :
              DataRows(persisted[j]) \subseteq DataRows(sheets[cards[j].name].values)

\* get_cards has returned an empty list and sync() has returned.
NoCardsFound ==
    /\ pc = "failed"
    /\ failed_at = 0
    /\ cards = <<>>
    /\ err.msg # <<"Failed to list cards">>
    /\ err.kind # "Http"

\* C11: when get_cards returns an empty list, sync() returns the error of
\* kind Config, and no sheet was created or changed and sync_card was not
\* called.
C11_NoCardsIsConfigError ==
    NoCardsFound => (err.kind = "Config" /\ sheets = at_start /\ touched = {})

\* C12: every get_card_transactions call of a run received the pair
\* (from_date, to_date) that sync() computed before get_cards; from_date is
\* a midnight, fetch_days days before the day of to_date, and not after
\* to_date.
C12_OneWindow ==
    /\ windows \subseteq {<<from_date, to_date>>}
    /\ pc # "idle" =>
          /\ to_date = now
          /\ from_date % DayLen = 0
          /\ from_date \div DayLen = (to_date \div DayLen) - fetch_days
          /\ from_date <= to_date

\* Two cards were fetched in a run started at a noon with fetch_days = 1.
C12_Witness ==
    /\ touched = {1, 2}
    /\ windows # {}
    /\ to_date % DayLen # 0
    /\ fetch_days = 1

\* reconcile_transactions has returned.
Returned == rc_pc = "returned"

\* The input transactions the k-th pair refers to.
DebitOf(k) == rc_transactions[refs[k].debit]
CreditOf(k) == rc_transactions[refs[k].credit]

\* The input positions used by some pair.
UsedPositions == UNION {{refs[k].debit, refs[k].credit} : k \in DOMAIN refs}

\* The time between two input transactions in whole days.
WholeDays(i, j) ==
    Abs(rc_transactions[j].timestamp - rc_transactions[i].timestamp) \div DayLen

\* Input d is a Debit and input c a Credit of another id whose amounts sum
\* to zero.
Opposite(d, c) ==
    /\ rc_transactions[d].type_ = "Debit"
    /\ rc_transactions[c].type_ = "Credit"
    /\ rc_transactions[d].id # rc_transactions[c].id
    /\ rc_transactions[d].amount + rc_transactions[c].amount = 0

\* Input c is an eligible Credit for the Debit of input d.
EligiblePair(d, c) ==
    /\ Opposite(d, c)
    /\ rc_transactions[d].matched_id = None
    /\ rc_transactions[c].matched_id = None
    /\ WholeDays(d, c) <= rc_days

\* C13: no transaction of the input list (no position of it) is used by two
\* of the returned pairs, or as both sides of one.
C13_AtMostOnePair ==
    Returned =>
        /\ matches = Matches(rc_transactions, refs)
        /\ \A k, l \in DOMAIN refs :
              /\ refs[k].debit # refs[k].credit
              /\ k # l => {refs[k].debit, refs[k].credit}
                              \cap {refs[l].debit, refs[l].credit} = {}

\* Two pairs were returned, each debit eligible for the other's credit.
C13_Witness ==
    /\ Returned
    /\ Len(refs) = 2
    /\ EligiblePair(refs[1].debit, refs[2].credit)
    /\ EligiblePair(refs[2].debit, refs[1].credit)

\* C14: every returned pair names a Debit as debit_id and a Credit as
\* credit_id, of different ids, whose amounts sum to zero.
C14_PairValidity ==
    Returned =>
        \A k \in DOMAIN refs :
            /\ DebitOf(k).type_ = "Debit"
            /\ CreditOf(k).type_ = "Credit"
            /\ DebitOf(k).id # CreditOf(k).id
            /\ DebitOf(k).amount + CreditOf(k).amount = 0
            /\ matches[k] = [debit_id |-> DebitOf(k).id, credit_id |-> CreditOf(k).id]

\* A Debit of positive amount was paired with a Credit of negative amount,
\* the input holding an unreconciled Credit of the same absolute amount
\* whose amount does not cancel the Debit's.
C14_Witness ==
    /\ Returned
    /\ \E k \in DOMAIN refs, c \in DOMAIN rc_transactions :
          /\ DebitOf(k).amount > 0
          /\ rc_transactions[c].type_ = "Credit"
          /\ rc_transactions[c].matched_id = None
          /\ rc_transactions[c].amount = DebitOf(k).amount

\* C15: no returned pair is more than `days` whole days apart; of a Debit
\* and a Credit that are eligible but for the window and exactly `days`
\* days apart at least one is paired (the two with each other when the
\* input holds nothing else); two that are `days` + 1 days apart are not
\* paired with each other.
C15_WindowBoundary ==
    Returned =>
        /\ \A k \in DOMAIN refs : WholeDays(refs[k].debit, refs[k].credit) <= rc_days
        /\ \A d, c \in DOMAIN rc_transactions :
              LET apart == Abs(rc_transactions[c].timestamp - rc_transactions[d].timestamp)
                  candidates == /\ Opposite(d, c)
                                /\ rc_transactions[d].matched_id = None
                                /\ rc_transactions[c].matched_id = None
              IN  /\ (candidates /\ apart = rc_days * DayLen)
                        => (d \in UsedPositions \/ c \in UsedPositions)
                  /\ (candidates /\ apart = rc_days * DayLen /\ Len(rc_transactions) = 2)
                        => refs = <<[debit |-> d, credit |-> c]>>
                  /\ (apart = (rc_days + 1) * DayLen)
                        => \A k \in DOMAIN refs : refs[k] # [debit |-> d, credit |-> c]

\* With days = 1, a pair exactly one day apart was returned.
C15_Witness ==
    /\ Returned
    /\ rc_days = 1
    /\ \E k \in DOMAIN refs :
          Abs(CreditOf(k).timestamp - DebitOf(k).timestamp) = rc_days * DayLen

C17_EarliestPick ==
    Returned =>
        \A k \in DOMAIN refs, c \in DOMAIN rc_transactions :
            (/\ EligiblePair(refs[k].debit, c)
             /\ \A l \in 1..(k - 1) : refs[l].credit # c)
                => rc_transactions[c].timestamp >= CreditOf(k).timestamp

\* A Debit was paired while a later Credit, placed before the paired one in
\* the input list, was eligible and unused.
C17_Witness ==
    /\ Returned
    /\ \E k \in DOMAIN refs, c \in DOMAIN rc_transactions :
          /\ EligiblePair(refs[k].debit, c)
          /\ c \notin UsedPositions
          /\ rc_transactions[c].timestamp > CreditOf(k).timestamp
          /\ c < refs[k].credit

\* The sync has a transaction list to write, or has just written it.
HasMerged == pc \in {"clear", "update", "format"}

\* C18: the codec round trip: for a non-empty list of transactions,
\* from_sheet_rows(to_sheet_rows(list)) succeeds and equals the list.  Stated
\* for every list sync_card encodes for a sheet.
C18_RoundTrip ==
    (HasMerged /\ all_transactions # <<>>)
        => from_sheet_rows(to_sheet_rows(all_transactions))
               = [ok |-> TRUE, val |-> all_transactions]

\* The data rows of a sheet whose Description cell is the empty string and
\* that deserialize once that cell holds some text.
EmptyDescriptionRows(v) ==
    {p \in 2..Len(v) :
        LET headers == [i \in DOMAIN v[1] |-> value_to_string(v[1][i])]
            at == ColumnOf(v[1], "Description")
        IN  /\ v[p][at] = Str("")
            /\ Deserializes(RowMap(headers, [v[p] EXCEPT ![at] = Str("x")]))}

\* C19: a data row whose Description cell is the empty string, its other
\* required cells being valid, decodes to a transaction whose description is
\* the empty string.  Stated for every such row of every sheet.
C19_EmptyDescriptionAccepted ==
    \A n \in DOMAIN sheets : \A p \in EmptyDescriptionRows(sheets[n].values) :
        LET decoded == from_sheet_rows(<<sheets[n].values[1], sheets[n].values[p]>>)
        IN  /\ decoded.ok
            /\ decoded.val[1].description = ""

\* The header row the claim lists.
C20_Header ==
    <<Str("Timestamp"), Str("Description"), Str("Amount"), Str("Currency"),
      Str("Type"), Str("ID"), Str("Matched ID"), Str("Comments")>>

\* C20: the empty case of the codec: an empty list is written as exactly
\* the header row; a sheet that holds no row, or the header row only, is read
\* as the empty list, and reading it never ends in a parse error.
C20_EmptyCase ==
    /\ (pc = "format" /\ all_transactions = <<>>)
           => sheets[Name].values = <<C20_Header>>
    /\ (pc = "merge" /\ Len(sheets[Name].values) <= 1)
           => existing_transactions = <<>>
    /\ (pc = "failed" /\ err.msg # <<>> /\ err.msg[1] = "Failed to parse row")
           => Len(sheets[Name].values) > 1

\* A sync has read back the header-only sheet that an earlier sync wrote
\* for an empty list.
C20_Witness ==
    /\ pc = "merge"
    /\ sheets[Name].values = <<C20_Header>>
    /\ existing_transactions = <<>>

\* from_sheet_rows has returned.
Decoded == cd_pc = "returned"

\* The permutations of n columns that exchange two columns or reverse them.
ColumnPermutations(n) ==
    {[k \in 1..n |-> IF k = i THEN j ELSE IF k = j THEN i ELSE k] : i, j \in 1..n}
        \cup {[k \in 1..n |-> n + 1 - k]}

\* rows with the columns of the header row and of every data row permuted.
PermuteColumns(rows, perm) == [p \in DOMAIN rows |-> Arrange(rows[p], perm)]

\* C21: decoding goes by the name of the header above a cell: permuting the
\* columns of the header row and of every data row alike does not change
\* what from_sheet_rows returns.
C21_NameBased ==
    Decoded =>
        \A perm \in ColumnPermutations(Len(cd_rows[1])) :
            from_sheet_rows(PermuteColumns(cd_rows, perm)) = cd_result

\* Rows that decode to transactions were decoded, and exchanging two of
\* their columns gives other rows.
C21_Witness ==
    /\ Decoded
    /\ cd_result.ok
    /\ cd_result.val # <<>>
    /\ \E perm \in ColumnPermutations(Len(cd_rows[1])) :
          PermuteColumns(cd_rows, perm) # cd_rows

\* The cell of row under the header called name, Null without such a column.
CellUnder(header_row, row, name) ==
    IF \E i \in DOMAIN header_row : header_row[i] = Str(name)
    THEN row[ColumnOf(header_row, name)]
    ELSE Null

\* A data row that lacks a required field or holds a decimal, a timestamp
\* or a type tag that does not convert.
Invalid(header_row, row) ==
    \/ \E name \in {"Timestamp", "Description", "Amount", "Currency", "Type", "ID"} :
          CellUnder(header_row, row, name) = Null
    \/ CellUnder(header_row, row, "Amount") = Str("ten")
    \/ CellUnder(header_row, row, "Timestamp") = Str("soon")
    \/ CellUnder(header_row, row, "Type") \notin {Str("Debit"), Str("Credit")}

\* The rows of cd_rows, numbered from 1 with the header row, that do not
\* decode on their own.
FailingRows ==
    {p \in 2..Len(cd_rows) : ~from_sheet_rows(<<cd_rows[1], cd_rows[p]>>).ok}

\* C22: a data row that lacks a required field or holds a value that does
\* not convert fails to decode; when a row fails, from_sheet_rows returns an
\* error and no list, and the error names the number of the first failing
\* row, counted from 1 with the header row.
C22_RowIndexedFailure ==
    Decoded =>
        /\ \A p \in 2..Len(cd_rows) :
              Invalid(cd_rows[1], cd_rows[p]) => p \in FailingRows
        /\ FailingRows # {} =>
              /\ ~cd_result.ok
              /\ "val" \notin DOMAIN cd_result
              /\ cd_result.row \in FailingRows
              /\ \A p \in FailingRows : cd_result.row <= p

\* A valid row was followed by an invalid one, which the error names.
C22_Witness ==
    /\ Decoded
    /\ Len(cd_rows) = 3
    /\ ~Invalid(cd_rows[1], cd_rows[2])
    /\ 2 \notin FailingRows
    /\ Invalid(cd_rows[1], cd_rows[3])
    /\ cd_result = [ok |-> FALSE, row |-> 3]

\* The number a spreadsheet label stands for: A..Z are 1..26, and a label
\* of several letters counts in base 26 without a zero digit.
RECURSIVE LabelNumber(_)
LabelNumber(label) ==
    IF label = <<>> THEN 0
    ELSE 26 * LabelNumber(SubSeq(label, 1, Len(label) - 1))
            + (CHOOSE d \in 1..26 : Alphabet[d] = label[Len(label)])

\* The labels the claim lists.
C23_Listed ==
    [i \in {0, 25, 26, 27, 51, 52, 701, 702} |->
        CASE i = 0 -> <<"A">>
          [] i = 25 -> <<"Z">>
          [] i = 26 -> <<"A", "A">>
          [] i = 27 -> <<"A", "B">>
          [] i = 51 -> <<"A", "Z">>
          [] i = 52 -> <<"B", "A">>
          [] i = 701 -> <<"Z", "Z">>
          [] OTHER -> <<"A", "A", "A">>]

\* C23: index_to_column_letter(i) is the spreadsheet label of column i (the
\* label that stands for i + 1), with the listed values; no other index up
\* to MaxColumn has the same label; get_column_letter is None exactly for a
\* name that is not a field, and the letter of the field's position else.
C23_ColumnLetters ==
    /\ (cl_pc = "returned" /\ cl_call.fn = "index_to_column_letter") =>
          /\ cl_result # <<>>
          /\ \A k \in DOMAIN cl_result : cl_result[k] \in Range(Alphabet)
          /\ LabelNumber(cl_result) = cl_call.col_idx + 1
          /\ cl_call.col_idx \in DOMAIN C23_Listed
                => cl_result = C23_Listed[cl_call.col_idx]
          /\ \A j \in 0..MaxColumn :
                index_to_column_letter(j) = cl_result => j = cl_call.col_idx
    /\ (cl_pc = "returned" /\ cl_call.fn = "get_column_letter") =>
          /\ cl_call.field_name \notin Range(FieldNames) => cl_result = None
          /\ \A i \in DOMAIN FieldNames :
                cl_call.field_name = FieldNames[i]
                    => cl_result = Some(<<Alphabet[i]>>)

\* A label of three letters was returned.
C23_Witness ==
    /\ cl_pc = "returned"
    /\ cl_call.fn = "index_to_column_letter"
    /\ cl_call.col_idx = 702
    /\ cl_result = <<"A", "A", "A">>

\* The Credits, as positions of the input, the k-th pair could have taken:
\* eligible for its Debit and in no earlier pair.
Available(k) ==
    {c \in DOMAIN rc_transactions :
        /\ EligiblePair(refs[k].debit, c)
        /\ \A l \in 1..(k - 1) : refs[l].credit # c}

\* The time between the Debit of the k-th pair and the transaction at c.
Distance(k, c) == Abs(rc_transactions[c].timestamp - DebitOf(k).timestamp)

\* C24 as stated: the Credit of every pair is, among the eligible unused
\* Credits, one whose timestamp is closest to the Debit's, also when some of
\* them are timestamped before the Debit.
C24_ClosestPick ==
    Returned =>
        \A k \in DOMAIN refs : \A c \in Available(k) :
            Distance(k, c) >= Distance(k, refs[k].credit)

\* C24 amended: the Credit of every pair is closest to the Debit among the
\* eligible unused Credits whenever none of them is timestamped before the
\* Debit.
C24_ClosestAmongLater ==
    Returned =>
        \A k \in DOMAIN refs :
            (\A c \in Available(k) :
                rc_transactions[c].timestamp >= DebitOf(k).timestamp)
            => \A c \in Available(k) :
                  Distance(k, c) >= Distance(k, refs[k].credit)

\* A Debit with two eligible unused Credits, both later than the Debit and
\* at different distances, was paired.
C24_Witness ==
    /\ Returned
    /\ \E k \in DOMAIN refs :
          /\ \A c \in Available(k) :
                rc_transactions[c].timestamp >= DebitOf(k).timestamp
          /\ \E c \in Available(k) : Distance(k, c) > Distance(k, refs[k].credit)

\* The Credits, as positions of the input, eligible for the Debit at d, and
\* the Debits the Credit at c is eligible for.
CreditsFor(d) == {c \in DOMAIN rc_transactions : EligiblePair(d, c)}
DebitsFor(c) == {d \in DOMAIN rc_transactions : EligiblePair(d, c)}

\* C25: a Debit and a Credit that are eligible for each other and for no
\* other transaction are paired, whichever has the earlier timestamp; every
\* pair names a Debit as debit_id and a Credit as credit_id; no pair of
\* input transactions is returned twice, in the same or in reversed roles.
C25_EitherSideFirst ==
    Returned =>
        /\ \A d, c \in DOMAIN rc_transactions :
              (CreditsFor(d) = {c} /\ DebitsFor(c) = {d})
                  => \E k \in DOMAIN refs : refs[k] = [debit |-> d, credit |-> c]
        /\ \A k \in DOMAIN refs :
              /\ DebitOf(k).type_ = "Debit"
              /\ CreditOf(k).type_ = "Credit"
              /\ matches[k] = [debit_id |-> DebitOf(k).id, credit_id |-> CreditOf(k).id]
        /\ \A k, l \in DOMAIN refs :
              k # l => {refs[k].debit, refs[k].credit} # {refs[l].debit, refs[l].credit}

\* A Debit was paired with a Credit of an earlier timestamp, placed before
\* the Debit in the input.
C25_Witness ==
    /\ Returned
    /\ \E k \in DOMAIN refs :
          /\ CreditOf(k).timestamp < DebitOf(k).timestamp
          /\ refs[k].credit < refs[k].debit
          /\ CreditsFor(refs[k].debit) = {refs[k].credit}
          /\ DebitsFor(refs[k].credit) = {refs[k].debit}

\* C26: whatever the order in which the amount buckets are visited, the
\* returned pairs are the same set; only their order in the returned
\* sequence differs; no transaction is in two buckets.
C26_SameSetForEveryOrder ==
    Returned =>
        /\ \A other \in reconcile_transactions(rc_transactions, rc_days) :
              /\ Range(other) = Range(matches)
              /\ Len(other) = Len(matches)
        /\ \A m, n \in Keys(rc_transactions) :
              m # n => Range(Bucket(rc_transactions, m))
                          \cap Range(Bucket(rc_transactions, n)) = {}

\* Another order of the buckets returns the pairs in another order.
C26_Witness ==
    /\ Returned
    /\ \E other \in reconcile_transactions(rc_transactions, rc_days) :
          /\ other # matches
          /\ Range(other) = Range(matches)

\* C27: the result is maximal: when reconcile_transactions has returned, no
\* Debit and Credit that are eligible for each other are both left out of
\* every pair.
C27_Maximal ==
    Returned =>
        \A d \in DOMAIN rc_transactions \ UsedPositions :
            CreditsFor(d) \subseteq UsedPositions

\* Pairs were returned, and a Debit and a Credit of opposite amounts that
\* are too far apart were both left unpaired.
C27_Witness ==
    /\ Returned
    /\ refs # <<>>
    /\ \E d, c \in DOMAIN rc_transactions \ UsedPositions :
          /\ Opposite(d, c)
          /\ rc_transactions[d].matched_id = None
          /\ rc_transactions[c].matched_id = None
          /\ WholeDays(d, c) > rc_days

\* The collaborator calls of sync_card, in the order of its code.
C28_Order == <<"get_card_transactions", "ensure_sheet", "read_sheet", "write_sheet">>

\* The calls made for card i in this run, in the order they were made.
CallsFor(i) ==
    LET mine == SelectSeq(calls, LAMBDA e : e[1] = i)
    IN  [k \in DOMAIN mine |-> mine[k][2]]

\* C28: for every card, the calls made in a run are a prefix of fetch
\* transactions, ensure sheet, read sheet, write sheet, so each is made at
\* most once, in that order, and write_sheet only after the other three;
\* cards are served one after the other; the call that failed is the last
\* call of the run, and when it is the fetch no call of the destination
\* store was made for that card.
C28_CallOrder ==
    /\ \A i \in DOMAIN cards :
          /\ Len(CallsFor(i)) <= Len(C28_Order)
          /\ CallsFor(i) = SubSeq(C28_Order, 1, Len(CallsFor(i)))
    /\ \A k, l \in DOMAIN calls : k <= l => calls[k][1] <= calls[l][1]
    /\ (pc = "failed" /\ failed_at > 0) =>
          /\ calls # <<>>
          /\ calls[Len(calls)][1] = failed_at
          /\ err.kind = "TrueLayer" => CallsFor(failed_at) = <<"get_card_transactions">>

\* A run over two cards has made all four calls for each.
C28_Witness ==
    /\ pc = "done"
    /\ Len(cards) = 2
    /\ CallsFor(1) = C28_Order
    /\ CallsFor(2) = C28_Order

\* The rules the Sheet passed to apply_formatting lists.
Listed ==
    IF fm_sheet.conditional_formats = None THEN 0
    ELSE Len(fm_sheet.conditional_formats[1])

\* While the batch is applied: what is left of the requests is what is left
\* of Listed deletes at index 0 followed by one add at index 0, and the sheet
\* holds as many rules as deletes are left.
C29_Requests ==
    fm_pc = "batch_update" =>
        /\ fm_requests # <<>>
        /\ Len(fm_requests) <= Listed + 1
        /\ \A k \in 1..(Len(fm_requests) - 1) :
              fm_requests[k] = DeleteRule(SheetId, 0)
        /\ fm_requests[Len(fm_requests)].kind = "add_conditional_format_rule"
        /\ fm_requests[Len(fm_requests)].index = 0
        /\ Len(fm_rules) = Len(fm_requests) - 1

\* C29: highlight_rules returns one delete at index 0 for each rule the
\* sheet lists, then exactly one add at index 0; applied in order to the
\* sheet they leave exactly one rule, the added one, whatever the sheet held
\* before and however many syncs came before.
C29_RulesDoNotAccumulate ==
    /\ []C29_Requests
    /\ [][(fm_pc = "apply_formatting" /\ fm_pc' = "batch_update")
             => Len(fm_requests') = Listed + 1]_vars
    /\ [][(fm_pc = "batch_update" /\ fm_pc' = "idle")
             => fm_rules' = <<"highlight">>]_vars

\* A second sync in a row has formatted a sheet that held two rules or
\* more before it.
C29_Witness ==
    /\ fm_pc = "idle"
    /\ fm_syncs = 2
    /\ Listed >= 2
    /\ fm_rules = <<"highlight">>

\* get_valid_tokens found tokens in the cache; they expire this many seconds
\* from now.
Loaded == au_tokens # None
ExpiresIn == au_tokens[1].expires_at - au_now

\* Positions of the log at which get_valid_tokens did this.
Did(what) == {k \in DOMAIN au_log : au_log[k] = what}

\* get_valid_tokens returned the cached tokens and did nothing but load them.
UsedCache ==
    /\ au_result = Ok(au_tokens[1])
    /\ au_log = <<"load_tokens">>
    /\ au_file = Cached(au_tokens[1])

\* The first thing get_valid_tokens did after loading the tokens was a
\* refresh.
RefreshedFirst == Len(au_log) >= 2 /\ au_log[2] = "refresh_access_token"

\* Interactive authentication ran at most once, and only when the cache
\* file held no tokens or after a refresh that failed; tokens saved after a
\* refresh whose response had no refresh token keep the cached refresh token.
C30_AuthenticateAndFallback ==
    /\ \A k \in Did("authenticate") :
          \/ ~Loaded /\ k = 2 /\ au_log[1] = "load_tokens"
          \/ Loaded /\ au_log[k - 1] = "refresh failed"
    /\ Cardinality(Did("authenticate")) <= 1
    /\ (/\ au_pc = "returned"
        /\ au_log[Len(au_log)] = "save_tokens"
        /\ au_response.caller = "refresh_access_token"
        /\ au_response.token_result.refresh_token = None)
          => /\ au_result.ok
             /\ au_result.tokens.refresh_token = au_tokens[1].refresh_token
             /\ au_result.tokens.access_token = au_response.token_result.access_token
             /\ au_file = Cached(au_result.tokens)

====
